---------------------------- MODULE Spec2Model ----------------------------
(***************************************************************************)
(* Model of the presentation generator (generate_presentations.py) and of  *)
(* the output verifier (verify_presentations.py).                          *)
(*                                                                         *)
(* Python strings are TLA+ strings; a value that may be None (the parser's *)
(* current_section, a record's title) is a sequence of at most one string: *)
(* <<>> is None and <<s>> is the string s.  Lists are sequences, dicts are *)
(* records.  Indices are Python's (0-based) and are shifted on access.     *)
(***************************************************************************)
EXTENDS Integers, Sequences, FiniteSets, TLC

(***************************************************************************)
(* Bounds of the explored inputs.                                          *)
(***************************************************************************)
MaxLines == 4
MaxBody == 3
MaxTextLines == 12
MaxCodeLines == 16
MaxSlides == 11

(***************************************************************************)
(* Program constants.                                                      *)
(***************************************************************************)
CodeKeep == 15
SlideLineLimit == 10
SlideCodeChars == 500
PdfCodeLines == 20
MinSlides == 10
HeaderBytes == 5

(***************************************************************************)
(* Python str and list operations, as the code uses them.                  *)
(***************************************************************************)
None == <<>>

Some(s) == <<s>>

\* Python truthiness of an Optional[str]: None and "" are false.
truthy(o) == o # None /\ o[1] # ""

Whitespace == {" ", "\n", "\t", "\r"}

startswith(s, p) == Len(s) >= Len(p) /\ SubSeq(s, 1, Len(p)) = p

\* s[n:]
slice_from(s, n) == IF n >= Len(s) THEN "" ELSE SubSeq(s, n + 1, Len(s))

\* s[:n]
slice_to(s, n) == IF n >= Len(s) THEN s ELSE SubSeq(s, 1, n)

\* lst[:n]
take(lst, n) == IF n >= Len(lst) THEN lst ELSE SubSeq(lst, 1, n)

RECURSIVE lstrip(_)
lstrip(s) ==
    IF s = "" THEN ""
    ELSE IF SubSeq(s, 1, 1) \in Whitespace THEN lstrip(slice_from(s, 1))
    ELSE s

RECURSIVE rstrip(_)
rstrip(s) ==
    IF s = "" THEN ""
    ELSE IF SubSeq(s, Len(s), Len(s)) \in Whitespace
         THEN rstrip(SubSeq(s, 1, Len(s) - 1))
    ELSE s

strip(s) == rstrip(lstrip(s))

\* s.find(p): the 0-based index of the first occurrence of p, or -1.
RECURSIVE find_from(_, _, _)
find_from(s, p, k) ==
    IF k + Len(p) > Len(s) THEN -1
    ELSE IF SubSeq(s, k + 1, k + Len(p)) = p THEN k
    ELSE find_from(s, p, k + 1)

find(s, p) == find_from(s, p, 0)

\* p in s
contains(s, p) == find(s, p) # -1

\* s.replace(old, new): every non-overlapping occurrence, left to right.
RECURSIVE replace(_, _, _)
replace(s, old, new) ==
    LET k == find(s, old)
    IN  IF k = -1 THEN s
        ELSE slice_to(s, k) \o new \o replace(slice_from(s, k + Len(old)), old, new)

\* s.split(sep): always at least one element.
RECURSIVE split(_, _)
split(s, sep) ==
    LET k == find(s, sep)
    IN  IF k = -1 THEN <<s>>
        ELSE <<slice_to(s, k)>> \o split(slice_from(s, k + Len(sep)), sep)

\* sep.join(lst)
RECURSIVE join(_, _)
join(sep, lst) ==
    IF lst = <<>> THEN ""
    ELSE IF Len(lst) = 1 THEN lst[1]
    ELSE lst[1] \o sep \o join(sep, Tail(lst))

\* [l for l in lst if l.strip()]
RECURSIVE nonblank(_)
nonblank(lst) ==
    IF lst = <<>> THEN <<>>
    ELSE (IF strip(lst[1]) # "" THEN <<lst[1]>> ELSE <<>>) \o nonblank(Tail(lst))

(***************************************************************************)
(* State.  The generator: the lines of README.md, parse_markdown's locals, *)
(* and the two outputs.  The verifier: the three files on disk, main's     *)
(* results list and the exit code.                                         *)
(***************************************************************************)
VARIABLES
    lines,            \* content.split('\n')
    i,                \* the line index
    sections,         \* the list of Section records
    current_section,  \* Optional[str]
    current_content,  \* list of str
    code_lines,       \* the fence loop's list
    pc,               \* where the generator is
    slides,           \* the deck create_powerpoint saved
    story,            \* the flowables create_pdf built
    files,            \* the verifier's view of the three files
    results,          \* main's results list
    stdout,           \* the kinds of message the verifier printed, in order
    vpc,              \* where the verifier is
    exit_code         \* what the verifier's main returned

gen_vars == <<lines, i, sections, current_section, current_content, code_lines,
              pc, slides, story>>

ver_vars == <<files, results, stdout, vpc, exit_code>>

vars == <<lines, i, sections, current_section, current_content, code_lines,
          pc, slides, story, files, results, stdout, vpc, exit_code>>

(***************************************************************************)
(* The inputs explored.                                                    *)
(***************************************************************************)
\* SANY's lexer rejects the backquote inside a string literal: the model writes
\* the backquote character as "~", which no input uses otherwise.
Backtick == "~"

Fence == Backtick \o Backtick \o Backtick

StructLines ==
    {"## A", "## B ", "## ", "### S", "#### H", Fence, "a<b&c>d", ""}

BodyLines ==
    {"- b", "  - c", "* d", "**e**", "---", "", "x & y",
     Backtick \o "<T>" \o Backtick}

RoundTripDoc ==
    <<"## Intro", "Some text", "### Sub", "More text", "## Next", "Final">>

TextLine(k) == "line " \o ToString(k)

CodeLine(k) == "code " \o ToString(k)

StructDocs == UNION {[1..n -> StructLines] : n \in 1..MaxLines}

BodyDocs ==
    {<<"## A">> \o b : b \in UNION {[1..n -> BodyLines] : n \in 0..MaxBody}}

TextDocs ==
    {<<"## A">> \o [k \in 1..n |-> TextLine(k)] : n \in 0..MaxTextLines}

FenceDocs ==
    {pre \o <<Fence>> \o [k \in 1..n |-> CodeLine(k)] \o close \o post :
        pre \in {<<>>, <<"## A">>, <<"## A", "a<b&c>d">>},
        n \in 0..MaxCodeLines,
        close \in {<<>>, <<Fence>>},
        post \in {<<>>, <<"### S">>, <<"## B ">>}}

Documents == StructDocs \cup BodyDocs \cup TextDocs \cup FenceDocs \cup {RoundTripDoc}

(***************************************************************************)
(* parse_markdown                                                          *)
(***************************************************************************)
line == lines[i + 1]

\* The level-1 dict the three flush sites build.
Section1(title, content) ==
    [title |-> title, content |-> strip(join("\n", content)), level |-> 1]

\* The level-2 dict.
Section2(title, parent) ==
    [title |-> Some(title), content |-> "", level |-> 2, parent |-> parent]

\* Faulty variant: the fence keeps every line of the block (the [:15] slice forgotten).
code_region_untruncated(code) == "\n[CODE]\n" \o join("\n", code) \o "\n[/CODE]\n"

\* The [CODE] region appended for a fence.
code_region(code) == "\n[CODE]\n" \o join("\n", take(code, CodeKeep)) \o "\n[/CODE]\n"

\* Faulty variant: a "### " line flushes nothing.
flush_sub_never(secs, title, content) == secs

\* The flush at a "### " line: made whenever content is pending.
flush_sub(secs, title, content) ==
    IF content # <<>> THEN Append(secs, Section1(title, content)) ELSE secs

\* Faulty variant: the flush is made without testing current_section.
flush_main_unguarded(secs, title, content) == Append(secs, Section1(title, content))

\* The flush at a "## " line and at the end of input.
flush_main(secs, title, content) ==
    IF truthy(title) THEN Append(secs, Section1(title, content)) ELSE secs

scanning == pc = "scan" /\ i < Len(lines)

Header2 ==
    /\ scanning
    /\ startswith(line, "## ")
    /\ sections' = flush_main(sections, current_section, current_content)
    /\ current_section' = Some(strip(slice_from(line, 3)))
    /\ current_content' = <<>>
    /\ i' = i + 1
    /\ UNCHANGED <<lines, code_lines, pc, slides, story, ver_vars>>

Header3 ==
    /\ scanning
    /\ ~startswith(line, "## ")
    /\ startswith(line, "### ")
    /\ sections' = Append(flush_sub(sections, current_section, current_content),
                          Section2(strip(slice_from(line, 4)), current_section))
    /\ current_content' = <<>>
    /\ i' = i + 1
    /\ UNCHANGED <<lines, current_section, code_lines, pc, slides, story, ver_vars>>

Header4 ==
    /\ scanning
    /\ ~startswith(line, "## ")
    /\ ~startswith(line, "### ")
    /\ startswith(line, "#### ")
    /\ current_content' =
           Append(current_content, "\n" \o strip(slice_from(line, 5)) \o "\n")
    /\ i' = i + 1
    /\ UNCHANGED <<lines, sections, current_section, code_lines, pc, slides,
                   story, ver_vars>>

is_header(l) ==
    startswith(l, "## ") \/ startswith(l, "### ") \/ startswith(l, "#### ")

FenceOpen ==
    /\ scanning
    /\ ~is_header(line)
    /\ startswith(line, Fence)
    /\ code_lines' = <<>>
    /\ i' = i + 1
    /\ pc' = "fence"
    /\ UNCHANGED <<lines, sections, current_section, current_content, slides,
                   story, ver_vars>>

FenceLine ==
    /\ pc = "fence"
    /\ i < Len(lines)
    /\ ~startswith(line, Fence)
    /\ code_lines' = Append(code_lines, line)
    /\ i' = i + 1
    /\ UNCHANGED <<lines, sections, current_section, current_content, pc,
                   slides, story, ver_vars>>

\* Faulty variant: the closing fence line is not stepped over (the trailing i += 1
\* skipped for this branch).
FenceClose_no_step ==
    /\ pc = "fence"
    /\ ~(i < Len(lines) /\ ~startswith(line, Fence))
    /\ current_content' = Append(current_content, code_region(code_lines))
    /\ pc' = "scan"
    /\ UNCHANGED <<lines, i, sections, current_section, code_lines, slides, story,
                   ver_vars>>

FenceClose ==
    /\ pc = "fence"
    /\ ~(i < Len(lines) /\ ~startswith(line, Fence))
    /\ current_content' = Append(current_content, code_region(code_lines))
    /\ i' = i + 1
    /\ pc' = "scan"
    /\ UNCHANGED <<lines, sections, current_section, code_lines, slides, story,
                   ver_vars>>

is_bullet(l) == startswith(l, "- ") \/ startswith(l, "* ")

Bullet ==
    /\ scanning
    /\ ~is_header(line)
    /\ ~startswith(line, Fence)
    /\ is_bullet(line)
    /\ current_content' = Append(current_content, line)
    /\ i' = i + 1
    /\ UNCHANGED <<lines, sections, current_section, code_lines, pc, slides,
                   story, ver_vars>>

is_text(l) == strip(l) # "" /\ ~startswith(l, "---")

Text ==
    /\ scanning
    /\ ~is_header(line)
    /\ ~startswith(line, Fence)
    /\ ~is_bullet(line)
    /\ is_text(line)
    /\ current_content' = Append(current_content, line)
    /\ i' = i + 1
    /\ UNCHANGED <<lines, sections, current_section, code_lines, pc, slides,
                   story, ver_vars>>

Skip ==
    /\ scanning
    /\ ~is_header(line)
    /\ ~startswith(line, Fence)
    /\ ~is_bullet(line)
    /\ ~is_text(line)
    /\ i' = i + 1
    /\ UNCHANGED <<lines, sections, current_section, current_content,
                   code_lines, pc, slides, story, ver_vars>>

ParseEnd ==
    /\ pc = "scan"
    /\ ~(i < Len(lines))
    /\ sections' = flush_main(sections, current_section, current_content)
    /\ pc' = "parsed"
    /\ UNCHANGED <<lines, i, current_section, current_content, code_lines,
                   slides, story, ver_vars>>

(***************************************************************************)
(* Helpers shared by the two renderers.                                    *)
(***************************************************************************)
\* The level-1 records, in order: the ones both renderers give a body.
RECURSIVE level1(_)
level1(secs) ==
    IF secs = <<>> THEN <<>>
    ELSE (IF secs[1].level = 1 THEN <<secs[1]>> ELSE <<>>) \o level1(Tail(secs))

\* line.replace('**', '').replace('`', '').strip()
clean(l) == strip(replace(replace(l, "**", ""), Backtick, ""))

\* re.search(r'\[CODE\](.*?)\[/CODE\]', text, re.DOTALL): group 1, or None.
code_search(text) ==
    LET a == find(text, "[CODE]")
        rest == slice_from(text, a + 6)
        b == find(rest, "[/CODE]")
    IN  IF a = -1 \/ b = -1 THEN None ELSE Some(slice_to(rest, b))

\* re.split(r'\[CODE\](.*?)\[/CODE\]', content, flags=re.DOTALL): text parts at
\* the even (0-based) places, the captured code at the odd ones.
RECURSIVE code_split(_)
code_split(text) ==
    LET a == find(text, "[CODE]")
        rest == slice_from(text, a + 6)
        b == find(rest, "[/CODE]")
    IN  IF a = -1 \/ b = -1 THEN <<text>>
        ELSE <<slice_to(text, a), slice_to(rest, b)>>
                 \o code_split(slice_from(rest, b + 7))

(***************************************************************************)
(* create_powerpoint                                                       *)
(***************************************************************************)
\* What TextFrame.clear() leaves, and what an untouched placeholder holds: one
\* empty paragraph (the code branch writes into it as tf.paragraphs[0]).
EmptyParagraph == [text |-> ""]

cleared_frame == <<EmptyParagraph>>

\* One pass of the loop over lines[:10]: the paragraph add_paragraph() appends.
slide_paragraph(l) ==
    LET clean_line == clean(l)
    IN  IF is_bullet(clean_line)
        THEN [text |-> slice_from(clean_line, 2), level |-> 0, size |-> 14]
        ELSE IF startswith(clean_line, "  - ") \/ startswith(clean_line, "  * ")
        THEN [text |-> slice_from(clean_line, 4), level |-> 1, size |-> 14]
        ELSE [text |-> clean_line, size |-> 14]

\* The regular-content branch: tf.clear(), then one paragraph per kept line.
slide_text_body(text_content) ==
    LET ls == take(nonblank(split(text_content, "\n")), SlideLineLimit)
    IN  cleared_frame \o [k \in 1..Len(ls) |-> slide_paragraph(ls[k])]

\* The code branch: the body is the first code region alone.
slide_code_body(text_content) ==
    LET code_match == code_search(text_content)
    IN  IF code_match # None
        THEN <<[text |-> slice_to(strip(code_match[1]), SlideCodeChars),
                size |-> 10, font |-> "Courier New"]>>
        ELSE <<EmptyParagraph>>

content_slide(section) ==
    [layout |-> 1,
     title |-> section.title[1],
     body |-> IF contains(section.content, "[CODE]")
              THEN slide_code_body(section.content)
              ELSE slide_text_body(section.content)]

title_slide ==
    [layout |-> 0,
     title |-> "Data Access Layer dengan Dapper",
     body |-> <<[text |-> "Panduan Lengkap Implementasi Dapper di .NET"]>>]

create_powerpoint(secs) ==
    LET l1 == level1(secs)
    IN  <<title_slide>> \o [k \in 1..Len(l1) |-> content_slide(l1[k])]

\* title.text = None raises in the slide library; the generator handles nothing.
title_raises(secs) == \E k \in 1..Len(secs) : secs[k].level = 1 /\ secs[k].title = None

CreatePowerpoint ==
    /\ pc = "parsed"
    /\ ~title_raises(sections)
    /\ slides' = create_powerpoint(sections)
    /\ pc' = "pptx_saved"
    /\ UNCHANGED <<lines, i, sections, current_section, current_content,
                   code_lines, story, ver_vars>>

CreatePowerpointFault ==
    /\ pc = "parsed"
    /\ title_raises(sections)
    /\ pc' = "fault"
    /\ UNCHANGED <<lines, i, sections, current_section, current_content,
                   code_lines, slides, story, ver_vars>>

(***************************************************************************)
(* create_pdf                                                              *)
(***************************************************************************)
\* The bullet glyph U+2022 the code prepends, written in ASCII.
BulletGlyph == "(*)"

Paragraph(text, style) == [kind |-> "Paragraph", text |-> text, style |-> style]

Preformatted(text, style) == [kind |-> "Preformatted", text |-> text, style |-> style]

\* Heights in hundredths of an inch.
Spacer(h) == [kind |-> "Spacer", height |-> h]

PageBreak == [kind |-> "PageBreak"]

\* The escaping of the regular-content branch: '&' first.
escape_plain(s) == replace(replace(replace(s, "&", "&amp;"), "<", "&lt;"), ">", "&gt;")

\* The escaping of the text parts around a code region: '<' and '>' first, '&' last.
escape_around_code(s) == replace(replace(replace(s, "<", "&lt;"), ">", "&gt;"), "&", "&amp;")

\* One line of the regular-content branch.
pdf_plain_line(l) ==
    LET clean_line == escape_plain(clean(l))
    IN  IF is_bullet(clean_line)
        THEN <<Paragraph(BulletGlyph \o " " \o slice_from(clean_line, 2), "CustomBody")>>
        ELSE IF startswith(clean_line, "  - ") \/ startswith(clean_line, "  * ")
        THEN <<Paragraph("  " \o BulletGlyph \o " " \o slice_from(clean_line, 4), "CustomBody")>>
        ELSE IF clean_line # "" THEN <<Paragraph(clean_line, "CustomBody")>>
        ELSE <<>>

\* One line of a text part of the code branch.
pdf_part_line(l) ==
    LET clean_line == escape_around_code(clean(l))
    IN  IF is_bullet(clean_line)
        THEN <<Paragraph(BulletGlyph \o " " \o slice_from(clean_line, 2), "CustomBody")>>
        ELSE IF clean_line # "" THEN <<Paragraph(clean_line, "CustomBody")>>
        ELSE <<>>

RECURSIVE pdf_plain_lines(_)
pdf_plain_lines(ls) ==
    IF ls = <<>> THEN <<>> ELSE pdf_plain_line(ls[1]) \o pdf_plain_lines(Tail(ls))

RECURSIVE pdf_part_lines(_)
pdf_part_lines(ls) ==
    IF ls = <<>> THEN <<>> ELSE pdf_part_line(ls[1]) \o pdf_part_lines(Tail(ls))

\* A text part (even place) of re.split's result.
pdf_text_part(part) ==
    IF strip(part) # "" THEN pdf_part_lines(nonblank(split(part, "\n"))) ELSE <<>>

\* A code part (odd place).
pdf_code_part(part) ==
    LET cl == take(split(strip(part), "\n"), PdfCodeLines)
    IN  [k \in 1..Len(cl) |-> Preformatted(cl[k], "Code")] \o <<Spacer(10)>>

\* for i, part in enumerate(parts), from the 0-based place n on.
RECURSIVE pdf_parts(_, _)
pdf_parts(parts, n) ==
    IF parts = <<>> THEN <<>>
    ELSE (IF n % 2 = 0 THEN pdf_text_part(parts[1]) ELSE pdf_code_part(parts[1]))
             \o pdf_parts(Tail(parts), n + 1)

pdf_content(content) ==
    IF contains(content, "[CODE]")
    THEN pdf_parts(code_split(content), 0)
    ELSE pdf_plain_lines(nonblank(split(content, "\n")))

pdf_section(section) ==
    IF section.level = 1
    THEN <<Paragraph(section.title[1], "CustomHeading"), Spacer(20)>>
             \o pdf_content(section.content) \o <<Spacer(30)>>
    ELSE IF section.level = 2
    THEN <<Paragraph(section.title[1], "CustomSubHeading"), Spacer(10)>>
    ELSE <<>>

RECURSIVE pdf_sections(_)
pdf_sections(secs) ==
    IF secs = <<>> THEN <<>> ELSE pdf_section(secs[1]) \o pdf_sections(Tail(secs))

title_page ==
    <<Spacer(200), Paragraph("Data Access Layer dengan Dapper", "CustomTitle"),
      Spacer(30), Paragraph("Panduan Lengkap Implementasi Dapper di .NET", "Normal"),
      PageBreak>>

create_pdf(secs) == title_page \o pdf_sections(secs)

CreatePdf ==
    /\ pc = "pptx_saved"
    /\ story' = create_pdf(sections)
    /\ pc' = "done"
    /\ UNCHANGED <<lines, i, sections, current_section, current_content,
                   code_lines, slides, ver_vars>>

(***************************************************************************)
(* The generator: main() parses, then renders the deck, then the PDF.      *)
(***************************************************************************)
NoFiles == [pptx |-> [exists |-> FALSE], pdf |-> [exists |-> FALSE],
            doc |-> [exists |-> FALSE]]

Init ==
    /\ lines \in Documents
    /\ i = 0
    /\ sections = <<>>
    /\ current_section = None
    /\ current_content = <<>>
    /\ code_lines = <<>>
    /\ pc = "scan"
    /\ slides = <<>>
    /\ story = <<>>
    /\ files = NoFiles
    /\ results = <<>>
    /\ stdout = <<>>
    /\ vpc = "idle"
    /\ exit_code = -1

Next ==
    \/ Header2
    \/ Header3
    \/ Header4
    \/ FenceOpen
    \/ FenceLine
    \/ FenceClose
    \/ Bullet
    \/ Text
    \/ Skip
    \/ ParseEnd
    \/ CreatePowerpoint
    \/ CreatePowerpointFault
    \/ CreatePdf

Spec == Init /\ [][Next]_vars

(***************************************************************************)
(* verify_presentations.py.  A file on disk is absent, or present and      *)
(* either faulty (opening or reading it raises) or readable.  A check      *)
(* returns [ret, raised, out]: its value, whether an exception left it,    *)
(* and what it printed.                                                    *)
(***************************************************************************)
Returned(v, out) == [ret |-> v, raised |-> FALSE, out |-> out]

Raised(out) == [ret |-> FALSE, raised |-> TRUE, out |-> out]

\* Faulty variant: no handler, the exception leaves the check.
try_propagate(body, error) == body

\* try: body / except Exception as e: print(error); return False
try_except(body, error) ==
    IF body.raised THEN Returned(FALSE, body.out \o <<error>>) ELSE body

verify_powerpoint(f) ==
    IF ~f.exists THEN Returned(FALSE, <<"pptx: file not found">>)
    ELSE try_except(
             IF ~f.opens THEN Raised(<<>>)
             ELSE IF f.num_slides < MinSlides
             THEN Returned(FALSE, <<"pptx: report", "pptx: warning, few slides">>)
             ELSE Returned(TRUE, <<"pptx: report">>),
             "pptx: error opening")

\* Faulty variant: the header is read but not compared.
verify_pdf_any_header(f) ==
    IF ~f.exists THEN Returned(FALSE, <<"pdf: file not found">>)
    ELSE try_except(
             IF ~f.readable THEN Raised(<<>>) ELSE Returned(TRUE, <<"pdf: report">>),
             "pdf: error opening")

verify_pdf(f) ==
    IF ~f.exists THEN Returned(FALSE, <<"pdf: file not found">>)
    ELSE try_except(
             IF ~f.readable THEN Raised(<<>>)
             ELSE IF slice_to(f.bytes, HeaderBytes) # "%PDF-"
             THEN Returned(FALSE, <<"pdf: report", "pdf: invalid header">>)
             ELSE Returned(TRUE, <<"pdf: report">>),
             "pdf: error opening")

required_sections == <<"File Presentasi", "Cara Menggunakan", "Regenerate">>

\* [s for s in required_sections if s not in content]
missing_sections(content) ==
    SelectSeq(required_sections, LAMBDA r : ~contains(content, r))

verify_documentation(f) ==
    IF ~f.exists THEN Returned(FALSE, <<"doc: file not found">>)
    ELSE try_except(
             IF ~f.readable THEN Raised(<<>>)
             ELSE IF missing_sections(f.content) # <<>>
             THEN Returned(FALSE, <<"doc: report", "doc: missing sections">>)
             ELSE Returned(TRUE, <<"doc: report">>),
             "doc: error reading")

\* all(results)
all(rs) == \A k \in 1..Len(rs) : rs[k]

\* results.append(check()) in main: an exception leaving the check ends main.
RunCheck(r, next) ==
    IF r.raised
    THEN /\ vpc' = "fault"
         /\ stdout' = stdout \o r.out
         /\ UNCHANGED results
    ELSE /\ vpc' = next
         /\ stdout' = stdout \o r.out
         /\ results' = Append(results, r.ret)

VerifyPowerpoint ==
    /\ vpc = "start"
    /\ RunCheck(verify_powerpoint(files.pptx), "pptx_checked")
    /\ UNCHANGED <<gen_vars, files, exit_code>>

VerifyPdf ==
    /\ vpc = "pptx_checked"
    /\ RunCheck(verify_pdf(files.pdf), "pdf_checked")
    /\ UNCHANGED <<gen_vars, files, exit_code>>

VerifyDocumentation ==
    /\ vpc = "pdf_checked"
    /\ RunCheck(verify_documentation(files.doc), "doc_checked")
    /\ UNCHANGED <<gen_vars, files, exit_code>>

Aggregate ==
    /\ vpc = "doc_checked"
    /\ exit_code' = IF all(results) THEN 0 ELSE 1
    /\ stdout' = Append(stdout, IF all(results) THEN "all checks passed"
                                ELSE "some checks failed")
    /\ vpc' = "exit"
    /\ UNCHANGED <<gen_vars, files, results>>

\* The files the verifier may find.
PptxFiles ==
    {[exists |-> FALSE], [exists |-> TRUE, opens |-> FALSE]}
        \cup {[exists |-> TRUE, opens |-> TRUE, num_slides |-> n] : n \in 0..MaxSlides}

PdfBytes == {"%PDF-1.4 body", "%PDF-", "%PDF", "", "<html>", "%pdf-1.4", " %PDF-1.4"}

PdfFiles ==
    {[exists |-> FALSE], [exists |-> TRUE, readable |-> FALSE]}
        \cup {[exists |-> TRUE, readable |-> TRUE, bytes |-> b] : b \in PdfBytes}

DocPieces == {"File Presentasi", "Cara Menggunakan", "Regenerate", "regenerate"}

\* A README text holding exactly the pieces of ps, one per line.
RECURSIVE DocText(_)
DocText(ps) ==
    IF ps = {} THEN "# README\n"
    ELSE LET p == CHOOSE x \in ps : TRUE
         IN  DocText(ps \ {p}) \o "## " \o p \o "\n"

DocFiles ==
    {[exists |-> FALSE], [exists |-> TRUE, readable |-> FALSE]}
        \cup {[exists |-> TRUE, readable |-> TRUE, content |-> DocText(ps)] :
                 ps \in SUBSET DocPieces}

VerifyInit ==
    /\ lines = <<"">>
    /\ i = 0
    /\ sections = <<>>
    /\ current_section = None
    /\ current_content = <<>>
    /\ code_lines = <<>>
    /\ pc = "idle"
    /\ slides = <<>>
    /\ story = <<>>
    /\ files \in [pptx : PptxFiles, pdf : PdfFiles, doc : DocFiles]
    /\ results = <<>>
    /\ stdout = <<>>
    /\ vpc = "start"
    /\ exit_code = -1

VerifyNext ==
    \/ VerifyPowerpoint
    \/ VerifyPdf
    \/ VerifyDocumentation
    \/ Aggregate

VerifySpec == VerifyInit /\ [][VerifyNext]_vars

(***************************************************************************)
(* The structure of an input, read off its lines alone (no parser state):  *)
(* what the properties below compare the parser's result with.             *)
(***************************************************************************)
\* Whether a fence is open once lines 1..k are consumed.
RECURSIVE InFenceAfter(_, _)
InFenceAfter(ls, k) ==
    IF k = 0 THEN FALSE
    ELSE IF startswith(ls[k], Fence) THEN ~InFenceAfter(ls, k - 1)
    ELSE InFenceAfter(ls, k - 1)

\* Line k is outside every code fence.
Outside(ls, k) == ~InFenceAfter(ls, k - 1)

IsH2(ls, k) == Outside(ls, k) /\ startswith(ls[k], "## ")

IsH3(ls, k) == Outside(ls, k) /\ startswith(ls[k], "### ")

\* Line k opens a fence.
Opens(ls, k) == Outside(ls, k) /\ startswith(ls[k], Fence)

\* Line k puts something into the content being accumulated.
AddsContent(ls, k) ==
    /\ Outside(ls, k)
    /\ ~startswith(ls[k], "## ")
    /\ ~startswith(ls[k], "### ")
    /\ \/ startswith(ls[k], "#### ")
       \/ startswith(ls[k], Fence)
       \/ (strip(ls[k]) # "" /\ ~startswith(ls[k], "---"))

\* Body content is pending when line k is reached.
Pending(ls, k) ==
    \E j \in 1..(k - 1) :
        /\ AddsContent(ls, j)
        /\ \A m \in (j + 1)..(k - 1) : ~IsH2(ls, m) /\ ~IsH3(ls, m)

\* The "## " lines before line k, outside fences.
H2Before(ls, k) == {j \in 1..(k - 1) : IsH2(ls, j)}

Max(S) == CHOOSE x \in S : \A y \in S : y <= x

\* The header text of a line: the '#' markers and surrounding whitespace removed.
RECURSIVE drop_hashes(_)
drop_hashes(s) ==
    IF s # "" /\ SubSeq(s, 1, 1) = "#" THEN drop_hashes(slice_from(s, 1)) ELSE s

HeaderText(l) == strip(drop_hashes(l))

\* The title in force when line k is reached: that of the nearest "## " line
\* before it, if there is one.
TitleBefore(ls, k) ==
    IF H2Before(ls, k) = {} THEN None ELSE Some(HeaderText(ls[Max(H2Before(ls, k))]))

NumLines == Len(lines)

Parsed == pc \in {"parsed", "pptx_saved", "done", "fault"}

\* The number of lines that start with "## ".
CountH2Lines == Cardinality({k \in 1..NumLines : startswith(lines[k], "## ")})

(***************************************************************************)
(* C1.  As claimed: the number of level-1 records equals the number of     *)
(* input lines that start with "## ".                                      *)
(***************************************************************************)
C1_CountEqualsH2Lines == Parsed => Len(level1(sections)) = CountH2Lines

\* The "## " lines outside fences whose title is not blank: each is flushed once.
TitledH2 == {k \in 1..NumLines : IsH2(lines, k) /\ HeaderText(lines[k]) # ""}

\* The "### " lines outside fences reached with body content pending: each
\* makes a level-1 flush of its own.
H3WithPending == {k \in 1..NumLines : IsH3(lines, k) /\ Pending(lines, k)}

(***************************************************************************)
(* C1, amended.  The number of level-1 records equals the number of "## "  *)
(* lines outside code fences whose title is not blank, plus the number of  *)
(* "### " lines outside code fences that are reached with body content     *)
(* pending.                                                                *)
(***************************************************************************)
C1_CountOfLevel1 ==
    Parsed => Len(level1(sections)) = Cardinality(TitledH2) + Cardinality(H3WithPending)

\* A parse in which a "### " line made a level-1 record beyond the "## " lines.
C1_Witness ==
    /\ pc = "parsed"
    /\ H3WithPending # {}
    /\ Len(level1(sections)) > CountH2Lines

(***************************************************************************)
(* C2.  As claimed: the six-line document yields three records, with "More *)
(* text" attached to the record of the next "## " header.                  *)
(***************************************************************************)
C2_ThreeRecords ==
    (lines = RoundTripDoc /\ Parsed) =>
        sections = <<[title |-> Some("Intro"), content |-> "Some text", level |-> 1],
                     [title |-> Some("Sub"), content |-> "", level |-> 2,
                      parent |-> Some("Intro")],
                     [title |-> Some("Next"), content |-> "More text\nFinal",
                      level |-> 1]>>

(***************************************************************************)
(* C2, amended.  The six-line document yields four records: Intro with     *)
(* "Some text", Sub (level 2, parent Intro, empty), a second Intro record  *)
(* with "More text", and Next with "Final": the body text after the "### " *)
(* line goes to a further record under the preceding "## " title.          *)
(***************************************************************************)
C2_FourRecords ==
    (lines = RoundTripDoc /\ Parsed) =>
        sections = <<[title |-> Some("Intro"), content |-> "Some text", level |-> 1],
                     [title |-> Some("Sub"), content |-> "", level |-> 2,
                      parent |-> Some("Intro")],
                     [title |-> Some("Intro"), content |-> "More text", level |-> 1],
                     [title |-> Some("Next"), content |-> "Final", level |-> 1]>>

\* The six-line document, parsed.
C2_Witness == lines = RoundTripDoc /\ pc = "parsed" /\ Len(sections) = 4

(***************************************************************************)
(* Fenced code blocks, read off the lines alone.                           *)
(***************************************************************************)
Min(S) == CHOOSE x \in S : \A y \in S : x <= y

\* The fence lines after line k.
FencesAfter(k) == {m \in (k + 1)..NumLines : startswith(lines[m], Fence)}

\* The lines that open a block, and those among them whose block is closed.
Blocks == {k \in 1..NumLines : Opens(lines, k)}

ClosedBlocks == {k \in Blocks : FencesAfter(k) # {}}

\* The lines of the block opened at line k: up to its closing fence, or to the
\* end of input when it has none.
BlockBody(k) ==
    IF FencesAfter(k) = {} THEN SubSeq(lines, k + 1, NumLines)
    ELSE SubSeq(lines, k + 1, Min(FencesAfter(k)) - 1)

\* The region a block of these lines is claimed to leave: its first min(N, 15)
\* lines between the two sentinels.
ClaimedRegion(body) ==
    "[CODE]\n"
        \o join("\n", SubSeq(body, 1, IF Len(body) < 15 THEN Len(body) ELSE 15))
        \o "\n[/CODE]"

\* The lines of a record's content.
ContentLines(sec) ==
    LET ls == split(sec.content, "\n") IN {ls[k] : k \in 1..Len(ls)}

\* The block's region is in some record, and none of its lines past the 15th is
\* a line of any record.
BlockKept(k) ==
    /\ \E n \in 1..Len(sections) : contains(sections[n].content, ClaimedRegion(BlockBody(k)))
    /\ \A j \in 16..Len(BlockBody(k)) :
           \A n \in 1..Len(sections) : BlockBody(k)[j] \notin ContentLines(sections[n])

RECURSIVE count_occurrences(_, _)
count_occurrences(s, p) ==
    LET k == find(s, p)
    IN  IF k = -1 THEN 0 ELSE 1 + count_occurrences(slice_from(s, k + Len(p)), p)

RECURSIVE TotalRegions(_)
TotalRegions(secs) ==
    IF secs = <<>> THEN 0
    ELSE count_occurrences(secs[1].content, "[CODE]") + TotalRegions(Tail(secs))

\* The headers after line k, outside fences.
HeadersAfter(k) == {m \in (k + 1)..NumLines : IsH2(lines, m) \/ IsH3(lines, m)}

\* The content that holds the block opened at line k reaches a record: the
\* block lies under a "## " title that is not blank, or the next header after
\* it is a "### " line.
Flushed(k) ==
    \/ truthy(TitleBefore(lines, k))
    \/ HeadersAfter(k) # {} /\ IsH3(lines, Min(HeadersAfter(k)))

(***************************************************************************)
(* C3.  As claimed: every fenced code block of N lines leaves, in the      *)
(* content of some record, one region holding its first min(N, 15) lines   *)
(* in order, and its later lines appear in no record.                      *)
(***************************************************************************)
C3_EveryBlockKept == Parsed => \A k \in ClosedBlocks : BlockKept(k)

(***************************************************************************)
(* C3, amended.  Every fenced code block of N lines whose content is       *)
(* flushed (it lies under a "## " header with a non-blank title, or the    *)
(* next header after it is a "### " line) leaves one region holding its    *)
(* first min(N, 15) lines in order, and its later lines appear in no       *)
(* record; a block that is not flushed leaves nothing, so the records hold *)
(* exactly one region per flushed block.                                   *)
(***************************************************************************)
C3_FlushedBlockKept ==
    Parsed =>
        /\ \A k \in ClosedBlocks : Flushed(k) => BlockKept(k)
        /\ TotalRegions(sections) = Cardinality({k \in Blocks : Flushed(k)})

\* A closed block of more than 15 lines was parsed and flushed.
C3_Witness ==
    /\ pc = "parsed"
    /\ \E k \in ClosedBlocks : Flushed(k) /\ Len(BlockBody(k)) > 15
    /\ TotalRegions(sections) = 1

(***************************************************************************)
(* C8.  As claimed: every record has a title (never None) that is the      *)
(* header text of a "## " line (level 1) or of a "### " line (level 2) of  *)
(* the input.                                                              *)
(***************************************************************************)
C8_TitleIsHeaderText ==
    \A n \in 1..Len(sections) :
        /\ sections[n].title # None
        /\ \E k \in 1..NumLines :
               /\ startswith(lines[k], IF sections[n].level = 1 THEN "## " ELSE "### ")
               /\ sections[n].title = Some(HeaderText(lines[k]))

Scanning == pc \in {"scan", "fence"}

Last(seq) == seq[Len(seq)]

endswith(s, p) == Len(s) >= Len(p) /\ SubSeq(s, Len(s) - Len(p) + 1, Len(s)) = p

\* The opening line of the fence left open at the end of input, if any.
UnclosedBlocks == {k \in Blocks : FencesAfter(k) = {}}

\* At the end of the parse: an open section is the final record; after an
\* unclosed fence the index is one past the lines and the final record ends
\* with the region of the lines that followed the fence.
FinalFlush ==
    pc = "parsed" =>
        /\ truthy(current_section) =>
               /\ sections # <<>>
               /\ Last(sections).level = 1
               /\ Last(sections).title = TitleBefore(lines, NumLines + 1)
               /\ Last(sections).content = strip(join("\n", current_content))
        /\ \A k \in UnclosedBlocks :
               /\ i = NumLines + 1
               /\ truthy(TitleBefore(lines, k)) =>
                      /\ Last(sections).title = TitleBefore(lines, k)
                      /\ endswith(Last(sections).content, ClaimedRegion(BlockBody(k)))
        /\ UnclosedBlocks = {} => i = NumLines

DeckSaved == pc \in {"pptx_saved", "done"}

\* A character escaped exactly once.
EscapeChar(c) ==
    CASE c = "&" -> "&amp;"
      [] c = "<" -> "&lt;"
      [] c = ">" -> "&gt;"
      [] OTHER -> c

RECURSIVE EscapeOnce(_)
EscapeOnce(s) ==
    IF s = "" THEN "" ELSE EscapeChar(SubSeq(s, 1, 1)) \o EscapeOnce(slice_from(s, 1))

\* The text a content line is claimed to be emitted with in the PDF.
ClaimedPdfText(l) ==
    LET t == EscapeOnce(clean(l))
    IN  IF is_bullet(t) THEN BulletGlyph \o " " \o slice_from(t, 2) ELSE t

\* The lines of the content of the level-1 records.
Level1ContentLines == UNION {ContentLines(sections[n]) : n \in {m \in 1..Len(sections) : sections[m].level = 1}}

BodyParagraphs ==
    {k \in 1..Len(story) : story[k].kind = "Paragraph" /\ story[k].style = "CustomBody"}

(***************************************************************************)
(* C4.  As claimed: every text line of a level-1 section is emitted by     *)
(* create_pdf with '&', '<' and '>' each escaped once, never twice, in     *)
(* sections without a code region and in the text around a code region.    *)
(***************************************************************************)
C4_EscapedOnce ==
    pc = "done" =>
        \A k \in BodyParagraphs :
            /\ \E l \in Level1ContentLines : story[k].text = ClaimedPdfText(l)
            /\ ~contains(story[k].text, "&amp;lt;")
            /\ ~contains(story[k].text, "&amp;gt;")
            /\ ~contains(story[k].text, "&amp;amp;")

\* The lines create_powerpoint lists for a section without a code region.
SlideLines(sec) == nonblank(split(sec.content, "\n"))

(***************************************************************************)
(* C6.  As claimed: the deck has one content slide per level-1 section,    *)
(* and the body of a section without a code region holds exactly           *)
(* min(k, 10) paragraphs for its k non-blank content lines (10 for the     *)
(* input of one "## A" header and 12 text lines).                          *)
(***************************************************************************)
C6_BodyParagraphCount ==
    DeckSaved =>
        /\ Len(slides) = 1 + Len(level1(sections))
        /\ \A n \in 1..Len(level1(sections)) :
               LET sec == level1(sections)[n]
                   k == Len(SlideLines(sec))
               IN  ~contains(sec.content, "[CODE]") =>
                       Len(slides[n + 1].body) = IF k < 10 THEN k ELSE 10

\* The paragraph a content line is claimed to become on a slide.
ClaimedLevel(l) ==
    IF startswith(l, "  - ") \/ startswith(l, "  * ") THEN 1
    ELSE IF startswith(l, "- ") \/ startswith(l, "* ") THEN 0
    ELSE -1

LevelOf(p) == IF "level" \in DOMAIN p THEN p.level ELSE -1

(***************************************************************************)
(* C9.  As claimed: on the slide of a section without a code region, the   *)
(* paragraph of a content line that begins with two spaces and a bullet    *)
(* prefix is at outline level 1, that of a line that begins with a bullet  *)
(* prefix is at level 0, and any other line is a plain paragraph, the line *)
(* being classified as it stands in the content.                           *)
(***************************************************************************)
C9_OutlineLevels ==
    DeckSaved =>
        \A n \in 1..Len(level1(sections)) :
            LET sec == level1(sections)[n]
                ls == take(SlideLines(sec), 10)
                body == slides[n + 1].body
            IN  ~contains(sec.content, "[CODE]") =>
                    \A k \in 1..Len(ls) :
                        LevelOf(body[Len(body) - Len(ls) + k]) = ClaimedLevel(ls[k])

(***************************************************************************)
(* The verifier's result against the files it was given.                   *)
(***************************************************************************)
PptxGood == files.pptx.exists /\ files.pptx.opens /\ files.pptx.num_slides >= 10

PdfGood ==
    /\ files.pdf.exists
    /\ files.pdf.readable
    /\ Len(files.pdf.bytes) >= 5
    /\ SubSeq(files.pdf.bytes, 1, 5) = "%PDF-"

DocGood ==
    /\ files.doc.exists
    /\ files.doc.readable
    /\ \A r \in {"File Presentasi", "Cara Menggunakan", "Regenerate"} :
           contains(files.doc.content, r)

(***************************************************************************)
(* C5.  main returns 0 if and only if all three checks returned true, and  *)
(* 1 otherwise; it returns 1 whenever the deck is absent or has fewer than *)
(* 10 slides, the PDF is absent or does not start with "%PDF-", or the     *)
(* documentation is absent or lacks one of the three required substrings.  *)
(***************************************************************************)
C5_ExitCode ==
    vpc = "exit" =>
        /\ exit_code \in {0, 1}
        /\ exit_code = 0 <=> results = <<TRUE, TRUE, TRUE>>
        /\ exit_code = 0 <=> (PptxGood /\ PdfGood /\ DocGood)

\* The verifier failed on the PDF header alone.
C5_Witness ==
    /\ vpc = "exit"
    /\ exit_code = 1
    /\ PptxGood /\ DocGood
    /\ files.pdf.exists /\ files.pdf.readable

\* What a check that did not pass must print, by the cause.
Printed(m) == \E k \in 1..Len(stdout) : stdout[k] = m

(***************************************************************************)
(* C7.  The three checks always all run, in the order deck, PDF,           *)
(* documentation: no check ends main, the next step is always possible     *)
(* until main has returned, main returns with three results, and a missing *)
(* file or an exception inside a check gives false for that check and a    *)
(* printed message.                                                        *)
(***************************************************************************)
C7_AllChecksRun ==
    /\ vpc # "fault"
    /\ vpc # "exit" => ENABLED VerifyNext
    /\ Len(results) = CASE vpc = "start" -> 0
                        [] vpc = "pptx_checked" -> 1
                        [] vpc = "pdf_checked" -> 2
                        [] OTHER -> 3
    /\ Len(results) >= 1 =>
           /\ ~files.pptx.exists => ~results[1] /\ Printed("pptx: file not found")
           /\ (files.pptx.exists /\ ~files.pptx.opens) =>
                  ~results[1] /\ Printed("pptx: error opening")
    /\ Len(results) >= 2 =>
           /\ ~files.pdf.exists => ~results[2] /\ Printed("pdf: file not found")
           /\ (files.pdf.exists /\ ~files.pdf.readable) =>
                  ~results[2] /\ Printed("pdf: error opening")
    /\ Len(results) >= 3 =>
           /\ ~files.doc.exists => ~results[3] /\ Printed("doc: file not found")
           /\ (files.doc.exists /\ ~files.doc.readable) =>
                  ~results[3] /\ Printed("doc: error reading")

\* The deck could not be opened, the PDF was missing, and the third check
\* still ran and passed.
C7_Witness ==
    /\ vpc = "exit"
    /\ files.pptx.exists /\ ~files.pptx.opens
    /\ ~files.pdf.exists
    /\ results = <<FALSE, FALSE, TRUE>>

=============================================================================
